---- MODULE Spec2Model ----
(***************************************************************************)
(* Model of src/src/main.c: the HD44780 (LCD1602) driver behind a PCF8574  *)
(* I2C expander on the S32K144, and the LM35 sampling loop that feeds it.  *)
(*                                                                         *)
(* The program is single threaded.  Its state is the program counter, the  *)
(* return-address stack, the parameters and locals of the driver           *)
(* functions, the two globals, and what the outside world has seen so far: *)
(* the transport calls and delays, in the order they were issued.          *)
(***************************************************************************)
EXTENDS Integers, Sequences, FiniteSets, TLC

(***************************************************************************)
(* Bounds of the model.                                                    *)
(***************************************************************************)
\* longest string handed to LCD_SendString when it is exercised on its own
MaxLen == 3
\* number of iterations of the main loop that are explored
MaxIter == 2

(***************************************************************************)
(* Program constants (main.c lines 28-37, 165).                            *)
(***************************************************************************)
LCD_CLEAR_DISPLAY == 1
LCD_RETURN_HOME == 2
LCD_ENTRY_MODE_SET == 4
LCD_DISPLAY_CONTROL == 8
LCD_FUNCTION_SET == 32
LCD_SET_DDRAM_ADDR == 128
\* third and fifth argument of LPI2C_DRV_MasterSendDataBlocking
I2C_TX_SIZE == 4
I2C_TIMEOUT == 100
\* sizeof temp_string
TEMP_STRING_SIZE == 16

\* the bus instance every transfer is made on
INST_LPI2C0 == "INST_LPI2C0"

\* what the blocking transfer can report back
Statuses == {"STATUS_SUCCESS", "STATUS_ERROR", "STATUS_TIMEOUT"}

(***************************************************************************)
(* uint8_t arithmetic.  Bitwise operators are computed bit by bit.         *)
(***************************************************************************)
RECURSIVE BitAnd(_, _)
BitAnd(a, b) ==
    IF a = 0 \/ b = 0 THEN 0
    ELSE (IF a % 2 = 1 /\ b % 2 = 1 THEN 1 ELSE 0) + 2 * BitAnd(a \div 2, b \div 2)

RECURSIVE BitOr(_, _)
BitOr(a, b) ==
    IF a = 0 THEN b
    ELSE IF b = 0 THEN a
    ELSE (IF a % 2 = 1 \/ b % 2 = 1 THEN 1 ELSE 0) + 2 * BitOr(a \div 2, b \div 2)

\* a << n, in int
ShiftLeft(a, n) == a * (2 ^ n)

\* conversion of an int to uint8_t
U8(a) == a % 256

Byte == 0 .. 255

(***************************************************************************)
(* LCD_SendByte, lines 152-162: the locals it computes.                    *)
(***************************************************************************)
HighNibble(d) == U8(BitAnd(d, 240))

LowNibble(d) == U8(BitAnd(ShiftLeft(d, 4), 240))

\* the payload with the two nibble groups exchanged
Payload_LowFirst(d, rs) ==
    << U8(BitOr(BitOr(BitOr(LowNibble(d), rs), 8), 4)),
       U8(BitOr(BitOr(LowNibble(d), rs), 8)),
       U8(BitOr(BitOr(BitOr(HighNibble(d), rs), 8), 4)),
       U8(BitOr(BitOr(HighNibble(d), rs), 8)) >>

\* the payload with EN low first and high second in each group
Payload_StrobeInverted(d, rs) ==
    << U8(BitOr(BitOr(HighNibble(d), rs), 8)),
       U8(BitOr(BitOr(BitOr(HighNibble(d), rs), 8), 4)),
       U8(BitOr(BitOr(LowNibble(d), rs), 8)),
       U8(BitOr(BitOr(BitOr(LowNibble(d), rs), 8), 4)) >>

\* the payload without the backlight bit
Payload_NoBacklight(d, rs) ==
    << U8(BitOr(BitOr(HighNibble(d), rs), 4)),
       U8(BitOr(HighNibble(d), rs)),
       U8(BitOr(BitOr(LowNibble(d), rs), 4)),
       U8(BitOr(LowNibble(d), rs)) >>

\* i2c_payload[0..3] as filled in by lines 157-162
Payload(d, rs) ==
    << U8(BitOr(BitOr(BitOr(HighNibble(d), rs), 8), 4)),
       U8(BitOr(BitOr(HighNibble(d), rs), 8)),
       U8(BitOr(BitOr(BitOr(LowNibble(d), rs), 8), 4)),
       U8(BitOr(BitOr(LowNibble(d), rs), 8)) >>

(***************************************************************************)
(* State.                                                                  *)
(***************************************************************************)
VARIABLES
    entry,                  \* the function this run was started in
    pc,                     \* the statement about to be executed
    stack,                  \* return addresses, innermost first
    ip,                     \* LCD_Init: index of its next statement
    command,                \* LCD_SendCommand: its parameter
    sd_data,                \* LCD_SendData: its parameter `data`
    data,                   \* LCD_SendByte: its parameter `data`
    rs_bit,                 \* LCD_SendByte: its parameter `rs_bit`
    i2c_payload,            \* LCD_SendByte: its local array
    status,                 \* LCD_SendByte: its local `status`
    str,                    \* LCD_SendString: its parameter, a pointer
    arg_string,             \* the caller's string when LCD_SendString is the entry
    temp_string,            \* main: char temp_string[16]
    g_adc_result,           \* global, uint16_t
    g_temperature_celsius,  \* global, int
    iter,                   \* main: completed passes of the while (1) loop
    samples,                \* conversion results read so far, in order
    trace,                  \* transport calls and delays issued so far, in order
    calls,                  \* invocations of LCD_SendByte so far, in order
    inflight                \* transport calls issued and not yet returned

vars == << entry, pc, stack, ip, command, sd_data, data, rs_bit, i2c_payload,
           status, str, arg_string, temp_string, g_adc_result,
           g_temperature_celsius, iter, samples, trace, calls, inflight >>

\* the variables of main and of the callers' memory
mainVars == << entry, arg_string, temp_string, g_adc_result,
               g_temperature_celsius, iter, samples >>

(***************************************************************************)
(* External collaborators as seen from the program.                        *)
(***************************************************************************)
\* a transfer that stops after the first strobe pair
TransportCalls_HighOnly(payload) ==
    << [ type     |-> "send",
         fn       |-> "LPI2C_DRV_MasterSendDataBlocking",
         instance |-> INST_LPI2C0,
         txBuff   |-> payload,
         txSize   |-> 2,
         sendStop |-> TRUE,
         timeout  |-> I2C_TIMEOUT ] >>

\* one transfer per payload byte
TransportCalls_Split(payload) ==
    [ k \in 1 .. 4 |->
        [ type     |-> "send",
          fn       |-> "LPI2C_DRV_MasterSendDataBlocking",
          instance |-> INST_LPI2C0,
          txBuff   |-> << payload[k] >>,
          txSize   |-> 1,
          sendStop |-> TRUE,
          timeout  |-> I2C_TIMEOUT ] ]

\* line 165: what LCD_SendByte hands to the transport for one payload
TransportCalls(payload) ==
    << [ type     |-> "send",
         fn       |-> "LPI2C_DRV_MasterSendDataBlocking",
         instance |-> INST_LPI2C0,
         txBuff   |-> payload,
         txSize   |-> I2C_TX_SIZE,
         sendStop |-> TRUE,
         timeout  |-> I2C_TIMEOUT ] >>

\* OSIF_TimeDelay(ms) as an event of the trace
DelayEvent(ms) == [ type |-> "delay", delay |-> ms ]

\* the bytes a transport call puts on the bus: the first txSize bytes of txBuff
Wire(e) == SubSeq(e.txBuff, 1, e.txSize)

\* a transfer that returns while the bytes are still going out
Completed_NonBlocking(n) == n

\* the blocking transfer returns only when the transfer is over (or timed out)
Completed(n) == n - 1

\* a driver that sends the burst again until the transport reports success
OnStatus_Retry(st) == IF st = "STATUS_SUCCESS" THEN "return" ELSE "retry"

\* lines 165-166: the status is stored and dropped; the function returns
OnStatus(st) == "return"

(***************************************************************************)
(* Memory the string pointer can point into.                               *)
(***************************************************************************)
\* ASCII
Ascii(c) ==
    CASE c = " " -> 32 [] c = "-" -> 45 [] c = ":" -> 58 [] c = "C" -> 67
      [] c = "T" -> 84 [] c = "a" -> 97 [] c = "e" -> 101 [] c = "m" -> 109
      [] c = "p" -> 112 [] c = "r" -> 114 [] c = "t" -> 116 [] c = "u" -> 117

\* a string literal as the bytes the compiler stores, terminator included
Literal(chars) == [ i \in 1 .. Len(chars) + 1 |->
                      IF i <= Len(chars) THEN Ascii(chars[i]) ELSE 0 ]

\* line 95: "Temperature:"
TemperatureLabel ==
    Literal(<< "T", "e", "m", "p", "e", "r", "a", "t", "u", "r", "e", ":" >>)

Buffer(name) ==
    CASE name = "literal" -> TemperatureLabel
      [] name = "temp_string" -> temp_string
      [] name = "arg" -> arg_string

\* *str
Deref(p) == Buffer(p.buf)[p.off]

(***************************************************************************)
(* Calls and returns.                                                      *)
(***************************************************************************)
Call(fn, ret) == pc' = fn /\ stack' = << ret >> \o stack

Return == pc' = Head(stack) /\ stack' = Tail(stack)

(***************************************************************************)
(* LCD_SendByte, lines 149-167.                                            *)
(***************************************************************************)
\* a payload array that keeps its bits from one call to the next
LCD_SendByte_Accumulating ==
    /\ pc = "LCD_SendByte"
    /\ i2c_payload' = [ k \in 1 .. 4 |->
                          BitOr(i2c_payload[k], Payload(data, rs_bit)[k]) ]
    /\ calls' = Append(calls, [ data |-> data, rs_bit |-> rs_bit ])
    /\ pc' = "LCD_SendByte_165"
    /\ UNCHANGED << stack, ip, command, sd_data, data, rs_bit, status, str,
                    trace, inflight, mainVars >>

\* lines 152-162: split the byte and fill the payload
LCD_SendByte ==
    /\ pc = "LCD_SendByte"
    /\ i2c_payload' = Payload(data, rs_bit)
    /\ calls' = Append(calls, [ data |-> data, rs_bit |-> rs_bit ])
    /\ pc' = "LCD_SendByte_165"
    /\ UNCHANGED << stack, ip, command, sd_data, data, rs_bit, status, str,
                    trace, inflight, mainVars >>

\* line 165: the payload is handed to the transport
LCD_SendByte_Transfer ==
    /\ pc = "LCD_SendByte_165"
    /\ trace' = trace \o TransportCalls(i2c_payload)
    /\ inflight' = inflight + Len(TransportCalls(i2c_payload))
    /\ pc' = "LPI2C_wait"
    /\ UNCHANGED << stack, ip, command, sd_data, data, rs_bit, i2c_payload,
                    status, str, calls, mainVars >>

\* lines 165-167: the transport returns some status; LCD_SendByte returns
LCD_SendByte_Return ==
    /\ pc = "LPI2C_wait"
    /\ \E st \in Statuses :
          /\ status' = st
          /\ IF OnStatus(st) = "return"
               THEN Return
               ELSE pc' = "LCD_SendByte_165" /\ stack' = stack
    /\ inflight' = Completed(inflight)
    /\ UNCHANGED << ip, command, sd_data, data, rs_bit, i2c_payload, str,
                    trace, calls, mainVars >>

(***************************************************************************)
(* LCD_SendCommand, lines 173-176, and LCD_SendData, lines 182-185.        *)
(***************************************************************************)
\* the register-select argument each wrapper passes
CommandRS == 0

DataRS == 1

LCD_SendCommand ==
    /\ pc = "LCD_SendCommand"
    /\ data' = command
    /\ rs_bit' = CommandRS
    /\ Call("LCD_SendByte", "LCD_SendCommand_176")
    /\ UNCHANGED << ip, command, sd_data, i2c_payload, status, str, trace,
                    calls, inflight, mainVars >>

LCD_SendCommand_Return ==
    /\ pc = "LCD_SendCommand_176"
    /\ Return
    /\ UNCHANGED << ip, command, sd_data, data, rs_bit, i2c_payload, status,
                    str, trace, calls, inflight, mainVars >>

\* the wrapper passing the command register-select
LCD_SendData_AsCommand ==
    /\ pc = "LCD_SendData"
    /\ data' = sd_data
    /\ rs_bit' = CommandRS
    /\ Call("LCD_SendByte", "LCD_SendData_185")
    /\ UNCHANGED << ip, command, sd_data, i2c_payload, status, str, trace,
                    calls, inflight, mainVars >>

LCD_SendData ==
    /\ pc = "LCD_SendData"
    /\ data' = sd_data
    /\ rs_bit' = DataRS
    /\ Call("LCD_SendByte", "LCD_SendData_185")
    /\ UNCHANGED << ip, command, sd_data, i2c_payload, status, str, trace,
                    calls, inflight, mainVars >>

LCD_SendData_Return ==
    /\ pc = "LCD_SendData_185"
    /\ Return
    /\ UNCHANGED << ip, command, sd_data, data, rs_bit, i2c_payload, status,
                    str, trace, calls, inflight, mainVars >>

(***************************************************************************)
(* LCD_SendString, lines 191-197.                                          *)
(***************************************************************************)
\* a loop that also stops at a blank
AtTerminator_OrSpace(p) == Deref(p) = 0 \/ Deref(p) = 32

\* line 193: the loop condition
AtTerminator(p) == Deref(p) = 0

\* the loop body written LCD_SendData(*++str)
LCD_SendString_PreIncrement ==
    /\ pc = "LCD_SendString"
    /\ ~AtTerminator(str)
    /\ sd_data' = U8(Deref([ str EXCEPT !.off = @ + 1 ]))
    /\ str' = [ str EXCEPT !.off = @ + 1 ]
    /\ Call("LCD_SendData", "LCD_SendString")
    /\ UNCHANGED << ip, command, data, rs_bit, i2c_payload, status, trace,
                    calls, inflight, mainVars >>

\* lines 193-195: while (*str) LCD_SendData(*str++);
LCD_SendString_Loop ==
    /\ pc = "LCD_SendString"
    /\ ~AtTerminator(str)
    /\ sd_data' = U8(Deref(str))
    /\ str' = [ str EXCEPT !.off = @ + 1 ]
    /\ Call("LCD_SendData", "LCD_SendString")
    /\ UNCHANGED << ip, command, data, rs_bit, i2c_payload, status, trace,
                    calls, inflight, mainVars >>

\* lines 193, 197: the terminator ends the loop
LCD_SendString_Return ==
    /\ pc = "LCD_SendString"
    /\ AtTerminator(str)
    /\ Return
    /\ UNCHANGED << ip, command, sd_data, data, rs_bit, i2c_payload, status,
                    str, trace, calls, inflight, mainVars >>

Driver ==
    \/ LCD_SendByte
    \/ LCD_SendByte_Transfer
    \/ LCD_SendByte_Return
    \/ LCD_SendCommand
    \/ LCD_SendCommand_Return
    \/ LCD_SendData
    \/ LCD_SendData_Return
    \/ LCD_SendString_Loop
    \/ LCD_SendString_Return

(***************************************************************************)
(* float arithmetic of line 109.  A float is [m, e] standing for m * 2^e   *)
(* with 2^23 <= m < 2^24, or m = 0; every operation rounds to nearest,     *)
(* ties to even, as IEEE-754 single precision does.  Intermediate values   *)
(* are kept below 2^31.                                                    *)
(***************************************************************************)
TwoTo23 == 2 ^ 23

TwoTo24 == 2 ^ 24

RECURSIVE F32Normalize(_, _)
F32Normalize(m, e) ==
    IF m = 0 THEN [ m |-> 0, e |-> 0 ]
    ELSE IF m < TwoTo23 THEN F32Normalize(2 * m, e - 1)
    ELSE [ m |-> m, e |-> e ]

\* (float) n for an integer 0 <= n < 2^24: exact
F32FromInt(n) == F32Normalize(n, 0)

\* m with the bits below it (rest, out of 2 * half) rounded to nearest even
F32Round(m, rest, half, e) ==
    LET up == rest > half \/ (rest = half /\ m % 2 = 1)
        r  == IF up THEN m + 1 ELSE m
    IN  IF r = TwoTo24 THEN [ m |-> TwoTo23, e |-> e + 1 ] ELSE [ m |-> r, e |-> e ]

\* n more quotient bits of rem / d by long division: << quotient, remainder >>
RECURSIVE DivBits(_, _, _, _)
DivBits(q, rem, d, n) ==
    IF n = 0 THEN << q, rem >>
    ELSE IF 2 * rem >= d
         THEN DivBits(2 * q + 1, 2 * rem - d, d, n - 1)
         ELSE DivBits(2 * q, 2 * rem, d, n - 1)

\* x / y
F32Div(x, y) ==
    IF x.m = 0 THEN x
    ELSE LET big == x.m >= y.m
             qr  == IF big THEN DivBits(1, x.m - y.m, y.m, 23)
                           ELSE DivBits(0, x.m, y.m, 24)
             e   == IF big THEN x.e - y.e - 23 ELSE x.e - y.e - 24
         IN  \* the remainder against y.m / 2, doubled to stay in integers
             F32Round(qr[1], 2 * qr[2], y.m, e)

\* x * y, the 48-bit product kept in two 24-bit halves
F32Mul(x, y) ==
    IF x.m = 0 \/ y.m = 0 THEN [ m |-> 0, e |-> 0 ]
    ELSE LET xh == x.m \div 4096
             xl == x.m % 4096
             yh == y.m \div 4096
             yl == y.m % 4096
             mid == xh * yl + xl * yh
             lof == xl * yl + (mid % 4096) * 4096
             lo == lof % TwoTo24
             hi == xh * yh + (mid \div 4096) + (lof \div TwoTo24)
         IN  IF hi >= TwoTo23
               THEN F32Round(hi, lo, TwoTo23, x.e + y.e + 24)
               ELSE F32Round(2 * hi + (lo \div TwoTo23), lo % TwoTo23,
                             TwoTo23 \div 2, x.e + y.e + 23)

\* conversion of a non-negative float to int: the fraction is discarded
F32ToInt(x) ==
    IF x.e >= 0 THEN x.m * (2 ^ x.e)
    ELSE IF 0 - x.e >= 24 THEN 0
    ELSE x.m \div (2 ^ (0 - x.e))

\* lines 36-37
ADC_VREF_MV == F32FromInt(5000)

ADC_MAX_VALUE == F32FromInt(4095)

\* the value of e handed to Body: each intermediate result is computed once
Then(e, Body(_)) == CHOOSE r \in { Body(v) : v \in { e } } : TRUE

\* the formula without the division by 10 mV per degree
Celsius_Millivolts(adc) ==
    Then(F32FromInt(adc), LAMBDA x :
    Then(F32Div(x, ADC_MAX_VALUE), LAMBDA q :
    Then(F32Mul(q, ADC_VREF_MV), LAMBDA p :
    F32ToInt(p))))

\* line 109: (((float)adc / ADC_MAX_VALUE) * ADC_VREF_MV) / 10.0f, stored in an int
Celsius(adc) ==
    Then(F32FromInt(adc), LAMBDA x :
    Then(F32Div(x, ADC_MAX_VALUE), LAMBDA q :
    Then(F32Mul(q, ADC_VREF_MV), LAMBDA p :
    Then(F32Div(p, F32FromInt(10)), LAMBDA t :
    F32ToInt(t)))))

(***************************************************************************)
(* sprintf(temp_string, "%d C ", n), line 113.                             *)
(***************************************************************************)
RECURSIVE Digits(_)
Digits(n) ==
    IF n < 10 THEN << 48 + n >> ELSE Digits(n \div 10) \o << 48 + (n % 10) >>

\* %d
FormatInt(n) == IF n < 0 THEN << 45 >> \o Digits(0 - n) ELSE Digits(n)

\* the characters "%d C " expands to, then the terminator sprintf appends
Formatted(n) == FormatInt(n) \o << 32, 67, 32 >> \o << 0 >>

\* buf after sprintf wrote out at its start
Sprintf(buf, out) ==
    [ i \in 1 .. Len(buf) |-> IF i <= Len(out) THEN out[i] ELSE buf[i] ]

(***************************************************************************)
(* LCD_Init, lines 203-225: a straight line of delays, direct              *)
(* LCD_SendByte calls and LCD_SendCommand calls.                           *)
(***************************************************************************)
DelayStmt(ms) == [ op |-> "OSIF_TimeDelay", arg |-> ms, rs |-> 0 ]

ByteStmt(d, rs) == [ op |-> "LCD_SendByte", arg |-> d, rs |-> rs ]

CommandStmt(c) == [ op |-> "LCD_SendCommand", arg |-> c, rs |-> 0 ]

\* the body with entry-mode and clear-display exchanged
LCD_Init_Body_Reordered ==
    << DelayStmt(50),
       ByteStmt(48, 0),
       DelayStmt(5),
       ByteStmt(48, 0),
       DelayStmt(1),
       ByteStmt(48, 0),
       DelayStmt(1),
       ByteStmt(32, 0),
       DelayStmt(1),
       CommandStmt(BitOr(LCD_FUNCTION_SET, 8)),
       CommandStmt(BitOr(LCD_DISPLAY_CONTROL, 4)),
       CommandStmt(BitOr(LCD_ENTRY_MODE_SET, 2)),
       DelayStmt(2),
       CommandStmt(LCD_CLEAR_DISPLAY),
       CommandStmt(LCD_RETURN_HOME) >>

\* the body without the wait after clear-display
LCD_Init_Body_NoClearDelay ==
    << DelayStmt(50),
       ByteStmt(48, 0),
       DelayStmt(5),
       ByteStmt(48, 0),
       DelayStmt(1),
       ByteStmt(48, 0),
       DelayStmt(1),
       ByteStmt(32, 0),
       DelayStmt(1),
       CommandStmt(BitOr(LCD_FUNCTION_SET, 8)),
       CommandStmt(BitOr(LCD_DISPLAY_CONTROL, 4)),
       CommandStmt(LCD_CLEAR_DISPLAY),
       CommandStmt(BitOr(LCD_ENTRY_MODE_SET, 2)),
       CommandStmt(LCD_RETURN_HOME) >>

\* the statements of lines 206-224, in source order
LCD_Init_Body ==
    << DelayStmt(50),
       ByteStmt(48, 0),
       DelayStmt(5),
       ByteStmt(48, 0),
       DelayStmt(1),
       ByteStmt(48, 0),
       DelayStmt(1),
       ByteStmt(32, 0),
       DelayStmt(1),
       CommandStmt(BitOr(LCD_FUNCTION_SET, 8)),
       CommandStmt(BitOr(LCD_DISPLAY_CONTROL, 4)),
       CommandStmt(LCD_CLEAR_DISPLAY),
       DelayStmt(2),
       CommandStmt(BitOr(LCD_ENTRY_MODE_SET, 2)),
       CommandStmt(LCD_RETURN_HOME) >>

InitAt(op) ==
    /\ pc = "LCD_Init"
    /\ ip <= Len(LCD_Init_Body)
    /\ LCD_Init_Body[ip].op = op

\* lines 206, 210, 212, 214, 216, 222
LCD_Init_Delay ==
    /\ InitAt("OSIF_TimeDelay")
    /\ trace' = Append(trace, DelayEvent(LCD_Init_Body[ip].arg))
    /\ ip' = ip + 1
    /\ UNCHANGED << pc, stack, command, sd_data, data, rs_bit, i2c_payload,
                    status, str, calls, inflight, mainVars >>

\* lines 209, 211, 213, 215
LCD_Init_SendByte ==
    /\ InitAt("LCD_SendByte")
    /\ data' = LCD_Init_Body[ip].arg
    /\ rs_bit' = LCD_Init_Body[ip].rs
    /\ ip' = ip + 1
    /\ Call("LCD_SendByte", "LCD_Init")
    /\ UNCHANGED << command, sd_data, i2c_payload, status, str, trace, calls,
                    inflight, mainVars >>

\* lines 219, 220, 221, 223, 224
LCD_Init_SendCommand ==
    /\ InitAt("LCD_SendCommand")
    /\ command' = LCD_Init_Body[ip].arg
    /\ ip' = ip + 1
    /\ Call("LCD_SendCommand", "LCD_Init")
    /\ UNCHANGED << sd_data, data, rs_bit, i2c_payload, status, str, trace,
                    calls, inflight, mainVars >>

\* line 225
LCD_Init_Return ==
    /\ pc = "LCD_Init"
    /\ ip > Len(LCD_Init_Body)
    /\ Return
    /\ UNCHANGED << ip, command, sd_data, data, rs_bit, i2c_payload, status,
                    str, trace, calls, inflight, mainVars >>

(***************************************************************************)
(* main, lines 65-126.  Clock, pin, watchdog, bus and ADC channel set-up   *)
(* (lines 73-78, 84-86) touch no state of this model.                      *)
(***************************************************************************)
\* raw conversion results the ADC hands back (uint16_t)
ADCReadings == { 0, 222, 819, 65535 }

\* line 94 and line 116: the cursor addresses main sends
FirstLine == 128

SecondLine == 192

driverLocals == << ip, sd_data, data, rs_bit, i2c_payload, status >>

\* line 81
main_LCD_Init ==
    /\ pc = "main_81"
    /\ ip' = 1
    /\ Call("LCD_Init", "main_92")
    /\ UNCHANGED << command, sd_data, data, rs_bit, i2c_payload, status, str,
                    trace, calls, inflight, mainVars >>

\* line 92
main_Clear ==
    /\ pc = "main_92"
    /\ command' = LCD_CLEAR_DISPLAY
    /\ Call("LCD_SendCommand", "main_93")
    /\ UNCHANGED << driverLocals, str, trace, calls, inflight, mainVars >>

\* the wait after clear-display cut to one unit
main_ClearDelay_Short ==
    /\ pc = "main_93"
    /\ trace' = Append(trace, DelayEvent(1))
    /\ pc' = "main_94"
    /\ UNCHANGED << stack, driverLocals, command, str, calls, inflight,
                    mainVars >>

\* line 93
main_ClearDelay ==
    /\ pc = "main_93"
    /\ trace' = Append(trace, DelayEvent(2))
    /\ pc' = "main_94"
    /\ UNCHANGED << stack, driverLocals, command, str, calls, inflight,
                    mainVars >>

\* line 94
main_FirstLine ==
    /\ pc = "main_94"
    /\ command' = FirstLine
    /\ Call("LCD_SendCommand", "main_95")
    /\ UNCHANGED << driverLocals, str, trace, calls, inflight, mainVars >>

\* line 95
main_Label ==
    /\ pc = "main_95"
    /\ str' = [ buf |-> "literal", off |-> 1 ]
    /\ Call("LCD_SendString", "main_103")
    /\ UNCHANGED << driverLocals, command, trace, calls, inflight, mainVars >>

\* A run started as "main" explores MaxIter passes of the loop and logs the
\* whole run; a run started as "main_unbounded" explores the loop without a
\* bound, and its logs cover the current pass only.
Bounded == entry # "main_unbounded"

Kept(log) == IF Bounded THEN log ELSE << >>

\* lines 100-105: the loop is entered unconditionally; one conversion is read
main_ReadADC ==
    /\ pc = "main_103"
    /\ Bounded => iter < MaxIter
    /\ \E r \in ADCReadings :
          /\ g_adc_result' = r
          /\ samples' = Append(Kept(samples), r)
    /\ trace' = Kept(trace)
    /\ calls' = Kept(calls)
    /\ pc' = "main_109"
    /\ UNCHANGED << stack, driverLocals, command, str, inflight, entry,
                    arg_string, temp_string, g_temperature_celsius, iter >>

\* line 109
main_Calculate ==
    /\ pc = "main_109"
    /\ g_temperature_celsius' = Celsius(g_adc_result)
    /\ pc' = "main_113"
    /\ UNCHANGED << stack, driverLocals, command, str, trace, calls, inflight,
                    entry, arg_string, temp_string, g_adc_result, iter,
                    samples >>

\* line 113
main_Format ==
    /\ pc = "main_113"
    /\ temp_string' = Sprintf(temp_string, Formatted(g_temperature_celsius))
    /\ pc' = "main_116"
    /\ UNCHANGED << stack, driverLocals, command, str, trace, calls, inflight,
                    entry, arg_string, g_adc_result, g_temperature_celsius,
                    iter, samples >>

\* the pass without the cursor command
main_SecondLine_Skipped ==
    /\ pc = "main_116"
    /\ pc' = "main_119"
    /\ UNCHANGED << stack, driverLocals, command, str, trace, calls, inflight,
                    mainVars >>

\* line 116
main_SecondLine ==
    /\ pc = "main_116"
    /\ command' = SecondLine
    /\ Call("LCD_SendCommand", "main_119")
    /\ UNCHANGED << driverLocals, str, trace, calls, inflight, mainVars >>

\* line 119
main_Temperature ==
    /\ pc = "main_119"
    /\ str' = [ buf |-> "temp_string", off |-> 1 ]
    /\ Call("LCD_SendString", "main_122")
    /\ UNCHANGED << driverLocals, command, trace, calls, inflight, mainVars >>

\* a loop that starts over from the initialization
main_LoopDelay_Reinit ==
    /\ pc = "main_122"
    /\ trace' = Append(trace, DelayEvent(1000))
    /\ iter' = IF Bounded THEN iter + 1 ELSE iter
    /\ pc' = "main_81"
    /\ UNCHANGED << stack, driverLocals, command, str, calls, inflight, entry,
                    arg_string, temp_string, g_adc_result,
                    g_temperature_celsius, samples >>

\* a loop that is left when the temperature reads zero
main_LoopDelay_BreakOnZero ==
    /\ pc = "main_122"
    /\ trace' = Append(trace, DelayEvent(1000))
    /\ iter' = IF Bounded THEN iter + 1 ELSE iter
    /\ pc' = IF g_temperature_celsius = 0 THEN "main_125" ELSE "main_103"
    /\ UNCHANGED << stack, driverLocals, command, str, calls, inflight, entry,
                    arg_string, temp_string, g_adc_result,
                    g_temperature_celsius, samples >>

\* lines 122-123: wait, then back to the top of the loop
main_LoopDelay ==
    /\ pc = "main_122"
    /\ trace' = Append(trace, DelayEvent(1000))
    /\ iter' = IF Bounded THEN iter + 1 ELSE iter
    /\ pc' = "main_103"
    /\ UNCHANGED << stack, driverLocals, command, str, calls, inflight, entry,
                    arg_string, temp_string, g_adc_result,
                    g_temperature_celsius, samples >>

(***************************************************************************)
(* The driver functions on their own: each is entered once with arguments  *)
(* drawn from its parameter type, and runs to its return.                  *)
(***************************************************************************)
\* characters a caller's string is made of: '2', 'C' and 0xFF
Chars == { 50, 67, 255 }

\* every sequence over S of length at most n
SeqsUpTo(S, n) == UNION { [ 1 .. k -> S ] : k \in 0 .. n }

\* what lies behind a string's terminator in the caller's memory
Garbage == { 0, 255 }

Quiet ==
    /\ ip = 1
    /\ i2c_payload = << 0, 0, 0, 0 >>
    /\ status = "none"
    /\ temp_string = [ i \in 1 .. TEMP_STRING_SIZE |-> 0 ]
    /\ g_adc_result = 0
    /\ g_temperature_celsius = 0
    /\ iter = 0
    /\ samples = << >>
    /\ trace = << >>
    /\ calls = << >>
    /\ inflight = 0

\* LCD_SendByte(d, rs) for any byte and either mode
InitSendByte ==
    /\ entry = "LCD_SendByte"
    /\ pc = "LCD_SendByte"
    /\ stack = << "done" >>
    /\ data \in Byte
    /\ rs_bit \in { 0, 1 }
    /\ command = 0
    /\ sd_data = 0
    /\ str = [ buf |-> "arg", off |-> 1 ]
    /\ arg_string = << 0 >>
    /\ Quiet

\* LCD_SendCommand(v); LCD_SendData(v); for any byte v
InitFacade ==
    /\ entry = "LCD_SendCommand"
    /\ pc = "LCD_SendCommand"
    /\ stack = << "LCD_SendData", "done" >>
    /\ command \in Byte
    /\ sd_data = command
    /\ data = 0
    /\ rs_bit = 0
    /\ str = [ buf |-> "arg", off |-> 1 ]
    /\ arg_string = << 0 >>
    /\ Quiet

\* LCD_SendString(s) for any string of at most MaxLen characters
InitSendString ==
    /\ entry = "LCD_SendString"
    /\ pc = "LCD_SendString"
    /\ stack = << "done" >>
    /\ \E s \in SeqsUpTo(Chars, MaxLen), g \in Garbage :
          arg_string = s \o << 0, g >>
    /\ str = [ buf |-> "arg", off |-> 1 ]
    /\ command = 0
    /\ sd_data = 0
    /\ data = 0
    /\ rs_bit = 0
    /\ Quiet

InitUnit == InitSendByte \/ InitFacade \/ InitSendString

NextUnit == Driver

SpecUnit == InitUnit /\ [][NextUnit]_vars

\* the processor keeps executing and every blocking transfer returns
SpecUnitFair == SpecUnit /\ WF_vars(NextUnit)

(***************************************************************************)
(* The program: main from reset.                                           *)
(***************************************************************************)
MainFrom(e) ==
    /\ entry = e
    /\ pc = "main_81"
    /\ stack = << >>
    /\ ip = 1
    /\ command = 0
    /\ sd_data = 0
    /\ data = 0
    /\ rs_bit = 0
    /\ i2c_payload = << 0, 0, 0, 0 >>
    /\ status = "none"
    /\ str = [ buf |-> "literal", off |-> 1 ]
    /\ arg_string = << 0 >>
    \* an automatic array: whatever the stack held
    /\ \E g \in Garbage : temp_string = [ i \in 1 .. TEMP_STRING_SIZE |-> g ]
    \* globals are zero-initialised
    /\ g_adc_result = 0
    /\ g_temperature_celsius = 0
    /\ iter = 0
    /\ samples = << >>
    /\ trace = << >>
    /\ calls = << >>
    /\ inflight = 0

Init == MainFrom("main")

Next ==
    \/ main_LCD_Init
    \/ LCD_Init_Delay
    \/ LCD_Init_SendByte
    \/ LCD_Init_SendCommand
    \/ LCD_Init_Return
    \/ main_Clear
    \/ main_ClearDelay
    \/ main_FirstLine
    \/ main_Label
    \/ main_ReadADC
    \/ main_Calculate
    \/ main_Format
    \/ main_SecondLine
    \/ main_Temperature
    \/ main_LoopDelay
    \/ LCD_SendByte
    \/ LCD_SendByte_Transfer
    \/ LCD_SendByte_Return
    \/ LCD_SendCommand
    \/ LCD_SendCommand_Return
    \/ LCD_SendData
    \/ LCD_SendData_Return
    \/ LCD_SendString_Loop
    \/ LCD_SendString_Return

Spec == Init /\ [][Next]_vars

\* main with no bound on the passes of the loop.  The processor keeps
\* executing, every blocking transfer returns and every conversion completes.
InitUnbounded == MainFrom("main_unbounded")

SpecUnbounded == InitUnbounded /\ [][Next]_vars /\ WF_vars(Next)

(***************************************************************************)
(* Lines 109-113 on their own: the temperature is calculated and formatted *)
(* for every value g_adc_result can hold.                                  *)
(***************************************************************************)
UInt16 == 0 .. 65535

InitCalculate ==
    /\ entry = "main_109"
    /\ pc = "main_109"
    /\ stack = << >>
    /\ g_adc_result \in UInt16
    /\ \E g \in Garbage : temp_string = [ i \in 1 .. TEMP_STRING_SIZE |-> g ]
    /\ ip = 1
    /\ command = 0
    /\ sd_data = 0
    /\ data = 0
    /\ rs_bit = 0
    /\ i2c_payload = << 0, 0, 0, 0 >>
    /\ status = "none"
    /\ str = [ buf |-> "literal", off |-> 1 ]
    /\ arg_string = << 0 >>
    /\ g_temperature_celsius = 0
    /\ iter = 0
    /\ samples = << >>
    /\ trace = << >>
    /\ calls = << >>
    /\ inflight = 0

NextCalculate == main_Calculate \/ main_Format

SpecCalculate == InitCalculate /\ [][NextCalculate]_vars

(***************************************************************************)
(* Properties.                                                             *)
(***************************************************************************)
\* the burst of section 8, in plain arithmetic: hi and lo are multiples of
\* 16 and mode, 0x0C and 0x08 lie below 16, so the bitwise or is a sum
BurstOf(byte, mode) ==
    LET hi == (byte \div 16) * 16
        lo == (byte % 16) * 16
    IN  << hi + mode + 12, hi + mode + 8, lo + mode + 12, lo + mode + 8 >>

IsSend(e) == e.type = "send"

IsDelay(e) == e.type = "delay"

\* C1: for every byte 0x00..0xFF and either mode flag, LCD_SendByte(byte, mode)
\* hands the transport exactly the four bytes (hi|mode|0x0C), (hi|mode|0x08),
\* (lo|mode|0x0C), (lo|mode|0x08), and nothing else; byte 0x20 as a command
\* gives 0x2C, 0x28, 0x0C, 0x08.
C1_SendByteBurst ==
    entry = "LCD_SendByte" =>
        /\ Len(trace) <= 1
        /\ pc \in { "LPI2C_wait", "done" } =>
              /\ Len(trace) = 1
              /\ IsSend(trace[1])
              /\ Wire(trace[1]) = BurstOf(data, rs_bit)
              /\ (data = 32 /\ rs_bit = 0) => Wire(trace[1]) = << 44, 40, 12, 8 >>

\* C1 witness: LCD_SendByte(0x20, Command) has returned after one transfer
C1_Witness ==
    /\ entry = "LCD_SendByte"
    /\ pc = "done"
    /\ data = 32
    /\ rs_bit = 0
    /\ Len(trace) = 1

\* LCD_Init has been called and has not returned yet
InLCD_Init ==
    \/ pc = "LCD_Init"
    \/ \E k \in 1 .. Len(stack) : stack[k] = "LCD_Init"

\* LCD_Init has returned
InitDone == entry = "main" /\ pc # "main_81" /\ ~InLCD_Init

\* the events of one run of the Initialization Sequencer, section 4.4
InitSteps ==
    << [ kind |-> "delay",   n |-> 50 ],
       [ kind |-> "nibble",  n |-> 3 ],
       [ kind |-> "delay",   n |-> 5 ],
       [ kind |-> "nibble",  n |-> 3 ],
       [ kind |-> "delay",   n |-> 1 ],
       [ kind |-> "nibble",  n |-> 3 ],
       [ kind |-> "delay",   n |-> 1 ],
       [ kind |-> "nibble",  n |-> 2 ],
       [ kind |-> "delay",   n |-> 1 ],
       [ kind |-> "command", n |-> 40 ],
       [ kind |-> "command", n |-> 12 ],
       [ kind |-> "command", n |-> 1 ],
       [ kind |-> "delay",   n |-> 2 ],
       [ kind |-> "command", n |-> 6 ],
       [ kind |-> "command", n |-> 2 ] >>

\* event e is what step st asks for
StepMatches(e, st) ==
    CASE st.kind = "delay" -> IsDelay(e) /\ e.delay >= st.n
      [] st.kind = "nibble" ->
            /\ IsSend(e)
            /\ SubSeq(Wire(e), 1, 2) = << st.n * 16 + 12, st.n * 16 + 8 >>
      [] st.kind = "command" -> IsSend(e) /\ Wire(e) = BurstOf(st.n, 0)

\* C2: the transmissions and delays of one run of LCD_Init are, in this order
\* and with nothing skipped, added or reordered: delay >= 50; send 0x3, delay
\* >= 5; send 0x3, delay >= 1; send 0x3, delay >= 1; send 0x2, delay >= 1;
\* command 0x28; command 0x0C; command 0x01, delay >= 2; command 0x06;
\* command 0x02.
C2_InitTrace ==
    entry = "main" =>
        /\ \A i \in 1 .. Len(trace) :
              i <= Len(InitSteps) => StepMatches(trace[i], InitSteps[i])
        /\ InLCD_Init => Len(trace) <= Len(InitSteps)
        /\ InitDone => Len(trace) >= Len(InitSteps)
        /\ pc = "main_92" => Len(trace) = Len(InitSteps)

\* C2 witness: LCD_Init has just returned to main
C2_Witness == pc = "main_92" /\ Len(trace) = 15 /\ Len(calls) = 9

\* the trace positions of the three sync sends and of the switch to 4 bits
SyncSends == { 2, 4, 6, 8 }

\* C4 as claimed: each of the sends of 0x3, 0x3, 0x3 and 0x2 is a raw
\* half-byte transaction, one EN=1/EN=0 strobe pair and no low-nibble pair.
C4_RawNibbleSends ==
    entry = "main" =>
        \A i \in SyncSends :
            i <= Len(trace) => IsSend(trace[i]) /\ Len(Wire(trace[i])) = 2

\* C4 amended: each of the four sends is a full LCD_SendByte call in command
\* mode for the byte 0x30 (three times) and 0x20: the high-nibble strobe pair
\* is followed by a low-nibble strobe pair carrying nibble 0x0.
C4_FullByteSends ==
    entry = "main" =>
        \A k \in 1 .. 4 :
            2 * k <= Len(trace) =>
                LET nib == IF k < 4 THEN 3 ELSE 2
                IN  /\ IsSend(trace[2 * k])
                    /\ Wire(trace[2 * k]) = << nib * 16 + 12, nib * 16 + 8, 12, 8 >>
                    /\ calls[k] = [ data |-> nib * 16, rs_bit |-> 0 ]

\* C4 witness: the four sends and their delays are done
C4_Witness == pc = "LCD_Init" /\ ip = 10 /\ Len(trace) = 9 /\ Len(calls) = 4

\* C8 as claimed: no two transmissions of the initialization are issued back
\* to back; a delay separates each from the next.
C8_DelayBetweenSteps ==
    entry = "main" =>
        \A i \in 1 .. Len(InitSteps) - 1 :
            i + 1 <= Len(trace) => ~(IsSend(trace[i]) /\ IsSend(trace[i + 1]))

\* the positions of the delays in the initialization trace
InitDelayPositions == { 1, 3, 5, 7, 9, 13 }

\* C8 amended: the delays of the initialization are the power-up wait, one
\* after each of the four sync/switch sends, and one after clear-display;
\* function-set, display-control and clear-display are issued back to back,
\* and so are entry-mode and return-home.
C8_DelayPlacement ==
    entry = "main" =>
        \A i \in 1 .. Len(InitSteps) :
            i <= Len(trace) => (IsDelay(trace[i]) <=> i \in InitDelayPositions)

\* C8 witness: the whole initialization has been issued
C8_Witness == InitDone /\ pc = "main_92" /\ IsSend(trace[10]) /\ IsSend(trace[11])

\* the transport calls of a trace, in order
Sends(t) == SelectSeq(t, IsSend)

\* C5: every call of LCD_SendByte makes exactly one transport call; it is the
\* blocking send, carries all four burst bytes with length 4, and uses the
\* timeout 100 and the one bus instance on every call.
C5_OneBlockingTransfer ==
    entry = "main" =>
        LET sends == Sends(trace)
        IN  /\ Len(sends) = Len(calls) - (IF pc = "LCD_SendByte_165" THEN 1 ELSE 0)
            /\ \A i \in 1 .. Len(sends) :
                  /\ sends[i].fn = "LPI2C_DRV_MasterSendDataBlocking"
                  /\ sends[i].txSize = 4
                  /\ sends[i].txBuff = BurstOf(calls[i].data, calls[i].rs_bit)
                  /\ sends[i].timeout = 100
                  /\ sends[i].instance = sends[1].instance

\* C5 witness: initialization and the label are out, 23 bytes in 23 transfers
C5_Witness == pc = "main_103" /\ Len(calls) = 23 /\ Len(Sends(trace)) = 23

\* an event of the trace reduced to what the display and the clock see
Seen(e) ==
    IF IsSend(e) THEN [ kind |-> "send", bytes |-> Wire(e), ms |-> 0 ]
    ELSE [ kind |-> "delay", bytes |-> << >>, ms |-> e.delay ]

SeenSend(byte, mode) == [ kind |-> "send", bytes |-> BurstOf(byte, mode), ms |-> 0 ]

SeenDelay(n) == [ kind |-> "delay", bytes |-> << >>, ms |-> n ]

SeenText(chars) == [ i \in 1 .. Len(chars) |-> SeenSend(chars[i], 1) ]

\* what LCD_Init issues when nothing fails
OrderInit ==
    << SeenDelay(50), SeenSend(48, 0), SeenDelay(5), SeenSend(48, 0),
       SeenDelay(1), SeenSend(48, 0), SeenDelay(1), SeenSend(32, 0),
       SeenDelay(1), SeenSend(40, 0), SeenSend(12, 0), SeenSend(1, 0),
       SeenDelay(2), SeenSend(6, 0), SeenSend(2, 0) >>

\* what main issues for the static label when nothing fails
OrderLabel ==
    << SeenSend(1, 0), SeenDelay(2), SeenSend(128, 0) >>
    \o SeenText(<< 84, 101, 109, 112, 101, 114, 97, 116, 117, 114, 101, 58 >>)

\* whole degrees for a raw reading, in exact integer arithmetic
DegreesOf(r) == (r * 5000) \div 40950

\* what one pass of the loop issues for reading r when nothing fails
OrderPass(r) ==
    << SeenSend(192, 0) >>
    \o SeenText(Digits(DegreesOf(r)) \o << 32, 67, 32 >>)
    \o << SeenDelay(1000) >>

RECURSIVE OrderLoop(_)
OrderLoop(rs) ==
    IF rs = << >> THEN << >> ELSE OrderPass(Head(rs)) \o OrderLoop(Tail(rs))

\* the all-success sequence for the readings taken so far
SuccessOrder == OrderInit \o OrderLabel \o OrderLoop(samples)

\* C6: whatever status each transport call returns, LCD_SendByte returns,
\* nothing is sent again, and the transmissions and delays issued by LCD_Init,
\* LCD_SendString and the loop are those of the all-success run.
C6_StatusIgnored ==
    entry = "main" =>
        /\ Len(trace) <= Len(SuccessOrder)
        /\ \A i \in 1 .. Len(trace) : Seen(trace[i]) = SuccessOrder[i]
        /\ pc = "main_103" => Len(trace) = Len(SuccessOrder)

\* C6 witness: a transfer timed out or failed, and the next one is on the bus
\* in the second pass of the loop
C6_Witness ==
    /\ status \in { "STATUS_ERROR", "STATUS_TIMEOUT" }
    /\ pc = "LPI2C_wait"
    /\ iter = 1
    /\ Len(trace) > Len(OrderInit) + Len(OrderLabel)

\* C7: a transport call has returned before the next transmission or delay
\* begins, at most one is in flight, and the bursts reach the transport in the
\* order LCD_SendByte was invoked.
C7_ProgramOrder ==
    entry = "main" =>
        /\ inflight = (IF pc = "LPI2C_wait" THEN 1 ELSE 0)
        /\ Len(Sends(trace)) <= Len(calls)
        /\ \A i \in 1 .. Len(Sends(trace)) :
              Wire(Sends(trace)[i]) = BurstOf(calls[i].data, calls[i].rs_bit)

\* C7 witness: the second transfer of the run is in flight, alone
C7_Witness == pc = "LPI2C_wait" /\ inflight = 1 /\ Len(calls) = 2

\* C9: for every payload v, the four bytes of LCD_SendCommand(v) and the four
\* of LCD_SendData(v) differ, position by position, in bit 0 only: clear for
\* the command, set for the data; nibble, backlight and enable are the same.
C9_ModeBitOnly ==
    (entry = "LCD_SendCommand" /\ pc = "done") =>
        /\ Len(trace) = 2
        /\ calls = << [ data |-> command, rs_bit |-> 0 ],
                      [ data |-> command, rs_bit |-> 1 ] >>
        /\ \A k \in 1 .. 4 :
              LET c == Wire(trace[1])[k]
                  d == Wire(trace[2])[k]
              IN  /\ c % 2 = 0
                  /\ d % 2 = 1
                  /\ c \div 2 = d \div 2
                  /\ c \div 16 = d \div 16

\* C9 witness: LCD_SendCommand(0xA5) then LCD_SendData(0xA5) have returned
C9_Witness ==
    /\ entry = "LCD_SendCommand"
    /\ pc = "done"
    /\ command = 165
    /\ Len(trace) = 2

\* strlen
StrLen(buf) ==
    (CHOOSE i \in 1 .. Len(buf) : buf[i] = 0 /\ \A j \in 1 .. i - 1 : buf[j] # 0) - 1

C3_InOrder ==
    entry = "LCD_SendString" =>
        LET n == StrLen(arg_string)
        IN  /\ Len(calls) <= n
            /\ Len(trace) <= n
            /\ \A i \in 1 .. Len(calls) :
                  calls[i] = [ data |-> arg_string[i], rs_bit |-> 1 ]
            /\ \A i \in 1 .. Len(trace) :
                  IsSend(trace[i]) /\ Wire(trace[i]) = BurstOf(arg_string[i], 1)
            /\ pc = "done" => Len(trace) = n

\* C3: for a string of N >= 0 characters LCD_SendString issues exactly N data
\* transmissions, the i-th carrying the i-th character in data mode in the
\* burst format, in input order; none for the empty string; the terminator is
\* never sent; and the call returns.
C3_SendString ==
    /\ []C3_InOrder
    /\ <>(entry = "LCD_SendString" => pc = "done")

\* C3 witness: LCD_SendString("2C") has returned after two transmissions
C3_Witness ==
    /\ entry = "LCD_SendString"
    /\ pc = "done"
    /\ StrLen(arg_string) = 2
    /\ arg_string[1] = 50
    /\ arg_string[2] = 67
    /\ Len(trace) = 2

\* the characters sent since the last command
RECURSIVE DataRun(_)
DataRun(cs) ==
    IF cs = << >> \/ cs[Len(cs)].rs_bit = 0 THEN << >>
    ELSE Append(DataRun(SubSeq(cs, 1, Len(cs) - 1)), cs[Len(cs)].data)

\* temp_string holds "27 C "
Holds27 == SubSeq(temp_string, 1, 6) = << 50, 55, 32, 67, 32, 0 >>

\* C10 as claimed: writing "27 C " results in exactly 6 data transmissions,
\* carrying '2', '7', ' ', 'C', ' ' in that order, the terminator not sent.
C10_SixTransmissions ==
    (pc = "main_122" /\ Holds27) =>
        /\ Len(DataRun(calls)) = 6
        /\ SubSeq(DataRun(calls), 1, 5) = << 50, 55, 32, 67, 32 >>
        /\ \A i \in 1 .. Len(DataRun(calls)) : DataRun(calls)[i] # 0

\* C10 amended: writing "27 C " results in exactly 5 data transmissions,
\* carrying '2', '7', ' ', 'C', ' ' in that order, the terminator not sent.
C10_FiveTransmissions ==
    (pc = "main_122" /\ Holds27) =>
        /\ DataRun(calls) = << 50, 55, 32, 67, 32 >>
        /\ LET n == Len(trace)
           IN  /\ Seen(trace[n - 5]) = SeenSend(192, 0)
               /\ \A i \in 1 .. 5 :
                     Seen(trace[n - 5 + i]) = SeenSend(<< 50, 55, 32, 67, 32 >>[i], 1)

\* C10 witness: reading 222 gave 27 degrees and the string has been written
C10_Witness ==
    /\ pc = "main_122"
    /\ Holds27
    /\ g_adc_result = 222
    /\ g_temperature_celsius = 27

\* bit k (0 = least significant) of byte b
Bit(b, k) == (b \div (2 ^ k)) % 2

\* C11: in every burst handed to the transport, during initialization, the
\* label and the loop, the bytes form two nibble groups; in each group EN goes
\* 1 then 0 while data nibble, RS and backlight stay the same; the group of
\* the high nibble comes before the group of the low nibble of the same byte.
C11_StrobeGroups ==
    entry = "main" =>
        \A i \in 1 .. Len(Sends(trace)) :
            LET w == Wire(Sends(trace)[i])
                b == calls[i].data
            IN  /\ Len(w) = 4
                /\ \A g \in { 1, 3 } :
                      /\ Bit(w[g], 2) = 1
                      /\ Bit(w[g + 1], 2) = 0
                      /\ w[g] - 4 = w[g + 1]
                /\ w[1] \div 16 = b \div 16
                /\ w[3] \div 16 = b % 16

\* C11 witness: the burst of the second-line command 0xC0, whose nibbles
\* differ, has been handed over in the loop
C11_Witness ==
    /\ entry = "main"
    /\ pc = "LPI2C_wait"
    /\ data = 192
    /\ Wire(trace[Len(trace)]) = << 204, 200, 12, 8 >>

\* C13: every clear-display command (0x01 in command mode), in LCD_Init or in
\* main, is followed by a delay of at least 2 before the next transmission.
C13_ClearThenDelay ==
    entry = "main" =>
        \A i \in 1 .. Len(trace) - 1 :
            Seen(trace[i]) = SeenSend(1, 0) =>
                IsDelay(trace[i + 1]) /\ trace[i + 1].delay >= 2

\* C13 witness: both clear-display commands are out, each with its delay, and
\* the next command has been sent
C13_Witness ==
    /\ pc = "main_95"
    /\ Seen(trace[12]) = SeenSend(1, 0)
    /\ Seen(trace[16]) = SeenSend(1, 0)
    /\ IsDelay(trace[17])
    /\ Len(trace) = 18

\* C17: in every byte handed to the transport bit 1 (read/write) is clear and
\* bit 3 (backlight) is set; the mode argument of LCD_SendByte is 0 or 1 at
\* every call, so the low four bits are one of 0x08, 0x09, 0x0C, 0x0D.
C17_ControlBits ==
    entry = "main" =>
        /\ \A i \in 1 .. Len(calls) : calls[i].rs_bit \in { 0, 1 }
        /\ \A i \in 1 .. Len(trace) :
              IsSend(trace[i]) =>
                  \A k \in 1 .. Len(Wire(trace[i])) :
                      LET b == Wire(trace[i])[k]
                      IN  /\ Bit(b, 1) = 0
                          /\ Bit(b, 3) = 1
                          /\ b % 16 \in { 8, 9, 12, 13 }

\* C17 witness: command and data bursts have both been sent
C17_Witness ==
    /\ entry = "main"
    /\ pc = "main_122"
    /\ \E i \in 1 .. Len(calls) : calls[i].rs_bit = 1
    /\ \E i \in 1 .. Len(calls) : calls[i].rs_bit = 0

\* the statements of the four driver functions
DriverPCs ==
    { "LCD_SendByte", "LCD_SendByte_165", "LPI2C_wait", "LCD_SendCommand",
      "LCD_SendCommand_176", "LCD_SendData", "LCD_SendData_185",
      "LCD_SendString" }

C12_ArgumentsOnly ==
    entry = "main" =>
        \A i, j \in 1 .. Len(Sends(trace)) :
            calls[i] = calls[j] => Wire(Sends(trace)[i]) = Wire(Sends(trace)[j])

C12_Frame ==
    pc \in DriverPCs =>
        UNCHANGED << g_adc_result, g_temperature_celsius, temp_string,
                     arg_string, samples, iter >>

\* C12: the driver keeps no state between calls: two calls of LCD_SendByte
\* with the same arguments emit the same burst whatever was sent or returned
\* before, and no step of LCD_SendByte, LCD_SendCommand, LCD_SendData or
\* LCD_SendString changes g_adc_result, g_temperature_celsius or the string.
C12_NoRetainedState == []C12_ArgumentsOnly /\ [][C12_Frame]_vars

\* C12 witness: 0xC0 has been sent in two passes, the first of which ended on
\* a failed transfer, and LCD_SendString is at work on temp_string
C12_Witness ==
    /\ entry = "main"
    /\ iter = 1
    /\ pc = "LCD_SendString"
    /\ str = [ buf |-> "temp_string", off |-> 2 ]
    /\ status = "STATUS_ERROR"
    /\ Len(SelectSeq(calls, LAMBDA c : c = [ data |-> 192, rs_bit |-> 0 ])) = 2

\* what only the initialization issues
InitOnlyEvents ==
    { SeenDelay(50), SeenSend(48, 0), SeenSend(32, 0), SeenSend(40, 0),
      SeenSend(12, 0), SeenSend(6, 0) }

C14_InitFirst ==
    entry = "main" =>
        /\ \A i \in 1 .. Len(trace) :
              IF i <= Len(OrderInit)
                THEN Seen(trace[i]) = OrderInit[i]
                ELSE Seen(trace[i]) \notin InitOnlyEvents
        /\ Len(trace) > Len(OrderInit) => InitDone

\* C14: the initialization runs once and is complete, return-home included,
\* before any other transmission; once it is complete no power-settle wait,
\* sync 0x3, switch to 4 bits, function-set, display-control or entry-mode is
\* issued again, and control never re-enters LCD_Init.
C14_InitOnce == []C14_InitFirst /\ [][InitDone => InitDone']_vars

\* C14 witness: a pass of the loop is complete
C14_Witness == InitDone /\ pc = "main_122" /\ iter = 1 /\ Len(trace) > 40

IsData(e) == IsSend(e) /\ Bit(Wire(e)[1], 0) = 1

IsFirstLineCommand(e) == Seen(e) = SeenSend(128, 0)

IsSecondLineCommand(e) == Seen(e) = SeenSend(192, 0)

IsLoopDelay(e) == Seen(e) = SeenDelay(1000)

IsLetterT(e) == Seen(e) = SeenSend(84, 1)

\* C15: every run of data transmissions starts right after a cursor command;
\* the label is written once, after 0x80 and before the loop; each pass is ADC
\* sample, command 0xC0, the characters of the formatted temperature, delay
\* 1000.
C15_PositionBeforeData ==
    entry = "main" =>
        /\ \A i \in 1 .. Len(trace) :
              IsData(trace[i]) =>
                  /\ i > 1
                  /\ \/ IsData(trace[i - 1])
                     \/ IsFirstLineCommand(trace[i - 1])
                     \/ IsSecondLineCommand(trace[i - 1])
        /\ Len(SelectSeq(trace, IsFirstLineCommand)) <= 1
        /\ Len(SelectSeq(trace, IsLetterT)) <= 1
        /\ Len(samples) > 0 =>
              /\ Len(trace) >= Len(OrderInit) + Len(OrderLabel)
              /\ \A i \in 1 .. Len(OrderLabel) :
                    Seen(trace[Len(OrderInit) + i]) = OrderLabel[i]
        /\ Len(SelectSeq(trace, IsSecondLineCommand)) <= Len(samples)
        /\ Len(SelectSeq(trace, IsSecondLineCommand)) >= iter
        /\ Len(SelectSeq(trace, IsLoopDelay)) = iter
        /\ pc = "main_122" =>
              LET text == Digits(DegreesOf(g_adc_result)) \o << 32, 67, 32 >>
                  n    == Len(text)
              IN  /\ DataRun(calls) = text
                  /\ calls[Len(calls) - n] = [ data |-> 192, rs_bit |-> 0 ]
                  /\ Len(SelectSeq(trace, IsSecondLineCommand)) = iter + 1

\* C15 witness: the second pass has written its temperature
C15_Witness ==
    /\ entry = "main"
    /\ pc = "main_122"
    /\ iter = 1
    /\ samples = << 819, 222 >>

\* the statement of main that is executing or will be returned to
MainPC == IF stack = << >> THEN pc ELSE stack[Len(stack)]

InLoop ==
    MainPC \in { "main_103", "main_109", "main_113", "main_116", "main_119",
                 "main_122" }

\* the pass has sent 0xC0 and the characters of the current temperature
RefreshIssued ==
    /\ pc = "main_122"
    /\ [ i \in 1 .. Len(trace) |-> Seen(trace[i]) ]
         = << SeenSend(192, 0) >>
           \o SeenText(Digits(DegreesOf(g_adc_result)) \o << 32, 67, 32 >>)

\* C16: as long as every transfer and every conversion returns, the program
\* never halts: the loop is never left, whatever the transport status or the
\* reading, and command 0xC0 followed by the temperature string is sent again
\* and again.
C16_LoopForever ==
    /\ []<>RefreshIssued
    /\ []<>(pc = "main_103")
    /\ [][InLoop => InLoop']_vars

\* C16 witness: a later pass: the buffer still holds the tail of "8001 C "
\* behind "0 C ", and the last transfer timed out
C16_Witness ==
    /\ entry = "main_unbounded"
    /\ RefreshIssued
    /\ g_adc_result = 0
    /\ temp_string[6] = 67
    /\ status = "STATUS_TIMEOUT"

\* C18: for every 16-bit reading the temperature is the truncation of
\* reading * 5000 / 4095 / 10 and lies in 0..8001; the formatted string
\* "<integer> C " has 4 to 7 characters and fits the 16-byte buffer with its
\* terminator, so LCD_SendString has 4 to 7 characters to send in a pass.
C18_TemperatureRange ==
    entry = "main_109" =>
        /\ pc \in { "main_113", "main_116" } =>
              /\ g_temperature_celsius = DegreesOf(g_adc_result)
              /\ g_temperature_celsius \in 0 .. 8001
        /\ pc = "main_116" =>
              LET n == StrLen(temp_string)
              IN  /\ n \in 4 .. 7
                  /\ Len(temp_string) = 16
                  /\ SubSeq(temp_string, 1, n)
                       = Digits(DegreesOf(g_adc_result)) \o << 32, 67, 32 >>
                  /\ \A i \in n + 2 .. 16 :
                        temp_string[i] = temp_string[16] /\ temp_string[i] \in Garbage

\* C18 witness: the largest reading, 65535, formatted as "8001 C " in a buffer
\* that held no terminator before
C18_Witness ==
    /\ entry = "main_109"
    /\ pc = "main_116"
    /\ g_adc_result = 65535
    /\ g_temperature_celsius = 8001
    /\ StrLen(temp_string) = 7
    /\ temp_string[16] = 255

(***************************************************************************)
(* The display data RAM of the controller, as section 4.4 leaves it        *)
(* configured (two lines, address increment, no shift), when every         *)
(* transmission arrives.                                                   *)
(***************************************************************************)
DDRAMCleared == [ addr |-> 0, ram |-> [ a \in 0 .. 127 |-> 32 ] ]

\* the address counter after a data write, in two-line mode
NextAddr(a) == IF a = 39 THEN 64 ELSE IF a = 103 THEN 0 ELSE a + 1

\* the effect of one byte received by the controller
Received(d, c) ==
    IF c.rs_bit = 1
      THEN [ addr |-> NextAddr(d.addr), ram |-> [ d.ram EXCEPT ![d.addr] = c.data ] ]
    ELSE IF c.data = 1 THEN DDRAMCleared
    ELSE IF c.data \div 2 = 1 THEN [ d EXCEPT !.addr = 0 ]
    ELSE IF c.data >= 128 THEN [ d EXCEPT !.addr = c.data - 128 ]
    ELSE d

RECURSIVE Display(_)
Display(cs) ==
    IF cs = << >> THEN DDRAMCleared
    ELSE Received(Display(SubSeq(cs, 1, Len(cs) - 1)), cs[Len(cs)])

\* the 16 visible characters of the second line
SecondLineShown(cs) == [ i \in 1 .. 16 |-> Display(cs).ram[63 + i] ]

\* C19: after every pass of the loop the second line shows the current
\* formatted temperature followed only by blanks; nothing of an earlier,
\* longer string stays visible.
C19_SecondLineCurrent ==
    (entry = "main" /\ pc = "main_103" /\ iter >= 1) =>
        LET n == StrLen(temp_string)
        IN  SecondLineShown(calls)
              = [ i \in 1 .. 16 |-> IF i <= n THEN temp_string[i] ELSE 32 ]

====
